---- MODULE Spec2Model ----
(***************************************************************************)
(* The two-tier cache manager of services/cacheManager.ts                  *)
(* (EnhancedCacheManager): an in-process Map in front of AsyncStorage.     *)
(*                                                                         *)
(* Strings that the code inspects (keys, storage keys, patterns, field     *)
(* names of stored objects) are sequences of one-character strings, so     *)
(* that includes / startsWith / replace / + are computed on characters.    *)
(* A JS object is a function from field names to values.  Payloads (the    *)
(* `data` of an entry) are written as their JSON literal.  The keys used   *)
(* by the callers of the model never equal a field name of CacheItem       *)
(* (data, timestamp, expiresAt, version).                                  *)
(***************************************************************************)
EXTENDS Integers, Sequences, FiniteSets, TLC

VARIABLES
    now,          \* Date.now(), epoch milliseconds
    version,      \* config.version of the running manager
    memoryCache,  \* Map<string, CacheItem>: logical key -> item object
    storage,      \* AsyncStorage: storage key -> stored string
    last,         \* the cache operation that has just returned: its arguments,
                  \* result and log line ("none" after a tick, restart or damage)
    workload,     \* this run: the keys, payloads and customTTLs passed, the builds run
    cache,        \* alphaVantageApi.ts: the module's Map of responses, key -> {data, expires}
    calls         \* the calls that were started step by step, in call order:
                  \* their arguments and locals and the await they are at

vars == <<now, version, memoryCache, storage, last, workload, cache, calls>>

----------------------------------------------------------------------------
(* Bounds of the model *)

MaxMinutes == 4      \* the clock runs from 0 to MaxMinutes minutes
TickMinutes == 2     \* one clock advance

----------------------------------------------------------------------------
(* String helpers: String.prototype.includes / startsWith / replace *)

includes(s, p) ==
    \E i \in 1..(Len(s) - Len(p) + 1) : SubSeq(s, i, i + Len(p) - 1) = p

startsWith(s, p) ==
    Len(p) <= Len(s) /\ SubSeq(s, 1, Len(p)) = p

\* s.replace(p, ''): the first occurrence of p is cut out, s unchanged if none
replaceFirst(s, p) ==
    IF includes(s, p)
    THEN LET i == CHOOSE j \in 1..(Len(s) - Len(p) + 1) :
                    /\ SubSeq(s, j, j + Len(p) - 1) = p
                    /\ \A h \in 1..(j - 1) : SubSeq(s, h, h + Len(p) - 1) # p
         IN  SubSeq(s, 1, i - 1) \o SubSeq(s, i + Len(p), Len(s))
    ELSE s

----------------------------------------------------------------------------
(* Map / object helpers *)

EmptyMap == [x \in {} |-> x]

Put(m, k, v) == [x \in (DOMAIN m) \cup {k} |-> IF x = k THEN v ELSE m[x]]

Drop(m, k) == [x \in (DOMAIN m) \ {k} |-> m[x]]

DropAll(m, ks) == [x \in (DOMAIN m) \ ks |-> m[x]]

----------------------------------------------------------------------------
(* Names *)

CACHE_PREFIX == <<"f", "r", "o", "w", "w", "_", "c", "a", "c", "h", "e", "_">>

METADATA_KEY == <<"f", "r", "o", "w", "w", "_", "c", "a", "c", "h", "e", "_",
                  "m", "e", "t", "a", "d", "a", "t", "a">>

\* services/watchlistStorage.ts keeps the watchlists in the same AsyncStorage
WATCHLISTS_KEY == <<"f", "r", "o", "w", "w", "_", "w", "a", "t", "c", "h", "l",
                    "i", "s", "t", "s">>

\* fields of CacheItem
F_data == <<"d", "a", "t", "a">>
F_timestamp == <<"t", "i", "m", "e", "s", "t", "a", "m", "p">>
F_expiresAt == <<"e", "x", "p", "i", "r", "e", "s", "A", "t">>
F_version == <<"v", "e", "r", "s", "i", "o", "n">>

\* substrings of TTL classification
S_quote == <<"q", "u", "o", "t", "e">>
S_top_gainers_losers == <<"t", "o", "p", "_", "g", "a", "i", "n", "e", "r", "s",
                          "_", "l", "o", "s", "e", "r", "s">>
S_intraday == <<"i", "n", "t", "r", "a", "d", "a", "y">>
S_overview == <<"o", "v", "e", "r", "v", "i", "e", "w">>
S_daily == <<"d", "a", "i", "l", "y">>
S_profile == <<"p", "r", "o", "f", "i", "l", "e">>
S_historical == <<"h", "i", "s", "t", "o", "r", "i", "c", "a", "l">>

TTL_CONFIG ==
    [quote |-> 2, top_gainers_losers |-> 5, intraday_chart |-> 5,
     company_overview |-> 60, daily_chart |-> 30,
     company_profile |-> 24 * 60, historical_data |-> 12 * 60]

defaultTTL == 30

InitialVersion == "1.0.0"

\* the versions a build of the manager may be configured with
Versions == {"1.0.0", "1.0.1"}

----------------------------------------------------------------------------
(* Payloads, as JSON literals; null is also what get returns for a miss *)

NULL == "null"
UNDEFINED == "undefined"

\* customTTL omitted
NoTTL == -1

----------------------------------------------------------------------------
(* JSON.stringify / JSON.parse of an object *)

\* JSON.stringify drops a field whose value is undefined
stringify(obj) ==
    [parsable |-> TRUE,
     obj |-> IF F_data \in DOMAIN obj /\ obj[F_data] = UNDEFINED
             THEN Drop(obj, F_data)
             ELSE obj]

\* a stored string JSON.parse throws on
Garbage == [parsable |-> FALSE, obj |-> EmptyMap]

canParse(text) == text.parsable

parse(text) == text.obj

----------------------------------------------------------------------------
(* Private helpers of the manager *)

\* isValidCacheItem with the expiry test off by one (>= for >)
isValidCacheItem_lateExpiry(item) ==
    /\ F_expiresAt \in DOMAIN item
    /\ item[F_expiresAt] >= now
    /\ F_version \in DOMAIN item
    /\ item[F_version] = version
    /\ F_data \in DOMAIN item
    /\ item[F_data] # NULL
    /\ item[F_data] # UNDEFINED

\* isValidCacheItem testing the payload for truthiness (!item.data)
isValidCacheItem_truthy(item) ==
    /\ F_expiresAt \in DOMAIN item
    /\ item[F_expiresAt] > now
    /\ F_version \in DOMAIN item
    /\ item[F_version] = version
    /\ F_data \in DOMAIN item
    /\ item[F_data] \notin {NULL, UNDEFINED, "0", "false", "\"\""}

\* isValidCacheItem without the version test
isValidCacheItem_anyVersion(item) ==
    /\ F_expiresAt \in DOMAIN item
    /\ item[F_expiresAt] > now
    /\ F_data \in DOMAIN item
    /\ item[F_data] # NULL
    /\ item[F_data] # UNDEFINED

isValidCacheItem(item) ==
    /\ F_expiresAt \in DOMAIN item
    /\ item[F_expiresAt] > now
    /\ F_version \in DOMAIN item
    /\ item[F_version] = version
    /\ F_data \in DOMAIN item
    /\ item[F_data] # NULL
    /\ item[F_data] # UNDEFINED

\* getTTLForKey with the profile test moved to the front
getTTLForKey_profileFirst(key) ==
    IF includes(key, S_profile) THEN TTL_CONFIG.company_profile
    ELSE IF includes(key, S_quote) THEN TTL_CONFIG.quote
    ELSE IF includes(key, S_top_gainers_losers) THEN TTL_CONFIG.top_gainers_losers
    ELSE IF includes(key, S_intraday) THEN TTL_CONFIG.intraday_chart
    ELSE IF includes(key, S_overview) THEN TTL_CONFIG.company_overview
    ELSE IF includes(key, S_daily) THEN TTL_CONFIG.daily_chart
    ELSE IF includes(key, S_historical) THEN TTL_CONFIG.historical_data
    ELSE defaultTTL

getTTLForKey(key) ==
    IF includes(key, S_quote) THEN TTL_CONFIG.quote
    ELSE IF includes(key, S_top_gainers_losers) THEN TTL_CONFIG.top_gainers_losers
    ELSE IF includes(key, S_intraday) THEN TTL_CONFIG.intraday_chart
    ELSE IF includes(key, S_overview) THEN TTL_CONFIG.company_overview
    ELSE IF includes(key, S_daily) THEN TTL_CONFIG.daily_chart
    ELSE IF includes(key, S_profile) THEN TTL_CONFIG.company_profile
    ELSE IF includes(key, S_historical) THEN TTL_CONFIG.historical_data
    ELSE defaultTTL

storageKeyOf(key) == CACHE_PREFIX \o key

\* getCacheMetadata: the parsed metadata record, {} when absent or on any error
getCacheMetadata(store, fail) ==
    IF "metaGetItem" \in fail THEN EmptyMap
    ELSE IF METADATA_KEY \notin DOMAIN store THEN EmptyMap
    ELSE IF ~canParse(store[METADATA_KEY]) THEN EmptyMap
    ELSE parse(store[METADATA_KEY])

\* updateCacheMetadata writing a record that holds this key alone
updateCacheMetadata_fresh(store, key, ttl, fail) ==
    Put(store, METADATA_KEY,
        stringify(Put(EmptyMap, key,
                      [lastUpdated |-> now, ttl |-> ttl, size |-> Len(key) + 10])))

\* updateCacheMetadata: the store after the metadata record was rewritten
updateCacheMetadata(store, key, ttl, fail) ==
    LET metadata == Put(getCacheMetadata(store, fail), key,
                        [lastUpdated |-> now, ttl |-> ttl, size |-> Len(key) + 10])
    IN  IF "metaSetItem" \in fail THEN store
        ELSE Put(store, METADATA_KEY, stringify(metadata))

----------------------------------------------------------------------------
(* The record of the last operation *)

NoStats == [memoryEntries |-> 0, storageEntries |-> 0]

\* what a handler (or its try block) leaves behind; `item` is the CacheItem
\* get decided on, if it came to look at one
Out(mem, store, ret, log, threw) ==
    [mem |-> mem, store |-> store, ret |-> ret, log |-> log, threw |-> threw,
     stats |-> NoStats, item |-> EmptyMap]

----------------------------------------------------------------------------
(* remove(key) *)

\* removeTry emptying the Map (memoryCache.clear() for delete(key))
removeTry_clearsMemory(mem, store, key, fail) ==
    IF "removeItem" \in fail
    THEN Out(EmptyMap, store, NULL, "throw", TRUE)
    ELSE Out(EmptyMap, Drop(store, storageKeyOf(key)), NULL, "Removed", FALSE)

removeTry(mem, store, key, fail) ==
    IF "removeItem" \in fail
    THEN Out(Drop(mem, key), store, NULL, "throw", TRUE)
    ELSE Out(Drop(mem, key), Drop(store, storageKeyOf(key)), NULL, "Removed", FALSE)

removeCatch(r) == [r EXCEPT !.log = "remove error", !.threw = FALSE]

remove(mem, store, key, fail) ==
    LET r == removeTry(mem, store, key, fail)
    IN  IF r.threw THEN removeCatch(r) ELSE r

----------------------------------------------------------------------------
(* get(key) *)

getTry(key, fail) ==
    LET storageKey == storageKeyOf(key)
    IN  IF key \in DOMAIN memoryCache /\ isValidCacheItem(memoryCache[key])
        THEN [Out(memoryCache, storage, memoryCache[key][F_data],
                  "HIT (Memory)", FALSE)
              EXCEPT !.item = memoryCache[key]]
        ELSE IF "getItem" \in fail
        THEN Out(memoryCache, storage, NULL, "throw", TRUE)
        ELSE IF storageKey \notin DOMAIN storage
        THEN Out(memoryCache, storage, NULL, "MISS", FALSE)
        ELSE IF ~canParse(storage[storageKey])
        THEN Out(memoryCache, storage, NULL, "throw", TRUE)
        ELSE LET cacheItem == parse(storage[storageKey])
             IN  IF isValidCacheItem(cacheItem)
                 THEN [Out(Put(memoryCache, key, cacheItem), storage,
                           cacheItem[F_data], "HIT (Storage)", FALSE)
                       EXCEPT !.item = cacheItem]
                 ELSE LET r == remove(memoryCache, storage, key, fail)
                      IN  [Out(r.mem, r.store, NULL, "EXPIRED", FALSE)
                           EXCEPT !.item = cacheItem]

\* get without its catch block: the rejection leaves get
getCatch_rethrow(r) == [r EXCEPT !.log = "get error"]

getCatch(r) == [r EXCEPT !.ret = NULL, !.log = "get error", !.threw = FALSE]

get(key, fail) ==
    LET r == getTry(key, fail)
    IN  IF r.threw THEN getCatch(r) ELSE r

----------------------------------------------------------------------------
(* set(key, data, customTTL) *)

\* customTTL || this.getTTLForKey(key)
ttlMinutesOf(key, customTTL) ==
    IF customTTL # NoTTL /\ customTTL # 0 THEN customTTL ELSE getTTLForKey(key)

newCacheItem(data, ttlMinutes) ==
    [f \in {F_data, F_timestamp, F_expiresAt, F_version} |->
        IF f = F_data THEN data
        ELSE IF f = F_timestamp THEN now
        ELSE IF f = F_expiresAt THEN now + (ttlMinutes * 60 * 1000)
        ELSE version]

\* a set whose memory write comes after the storage write
setTry_storeFirst(key, data, customTTL, fail) ==
    LET ttlMinutes == ttlMinutesOf(key, customTTL)
        cacheItem == newCacheItem(data, ttlMinutes)
        mem1 == Put(memoryCache, key, cacheItem)
    IN  IF "setItem" \in fail
        THEN Out(memoryCache, storage, NULL, "throw", TRUE)
        ELSE Out(mem1,
                 updateCacheMetadata(
                     Put(storage, storageKeyOf(key), stringify(cacheItem)),
                     key, ttlMinutes, fail),
                 NULL, "Cached", FALSE)

setTry(key, data, customTTL, fail) ==
    LET ttlMinutes == ttlMinutesOf(key, customTTL)
        cacheItem == newCacheItem(data, ttlMinutes)
        mem1 == Put(memoryCache, key, cacheItem)
    IN  IF "setItem" \in fail
        THEN Out(mem1, storage, NULL, "throw", TRUE)
        ELSE Out(mem1,
                 updateCacheMetadata(
                     Put(storage, storageKeyOf(key), stringify(cacheItem)),
                     key, ttlMinutes, fail),
                 NULL, "Cached", FALSE)

setCatch(r) == [r EXCEPT !.log = "set error", !.threw = FALSE]

set(key, data, customTTL, fail) ==
    LET r == setTry(key, data, customTTL, fail)
    IN  IF r.threw THEN setCatch(r) ELSE r

----------------------------------------------------------------------------
(* clear() *)

\* every key of the store taken for a cache key
cacheKeysOf_allKeys(store) == DOMAIN store

cacheKeysOf(store) == {k \in DOMAIN store : startsWith(k, CACHE_PREFIX)}

\* a clear that empties the Map only once the storage wipe is through
clearTry_memoryLast(fail, done) ==
    LET cacheKeys == cacheKeysOf(storage)
    IN  IF "getAllKeys" \in fail
        THEN Out(memoryCache, storage, NULL, "throw", TRUE)
        ELSE IF cacheKeys # {} /\ "multiRemove" \in fail
        THEN Out(memoryCache, DropAll(storage, done \cap cacheKeys), NULL, "throw", TRUE)
        ELSE IF "removeItem" \in fail
        THEN Out(memoryCache, DropAll(storage, cacheKeys), NULL, "throw", TRUE)
        ELSE Out(EmptyMap, Drop(DropAll(storage, cacheKeys), METADATA_KEY),
                 NULL, "cleared", FALSE)

\* `done`: the keys a rejecting multiRemove had already removed (clear)
clearTry(fail, done) ==
    LET cacheKeys == cacheKeysOf(storage)
    IN  IF "getAllKeys" \in fail
        THEN Out(EmptyMap, storage, NULL, "throw", TRUE)
        ELSE IF cacheKeys # {} /\ "multiRemove" \in fail
        THEN Out(EmptyMap, DropAll(storage, done \cap cacheKeys), NULL, "throw", TRUE)
        ELSE IF "removeItem" \in fail
        THEN Out(EmptyMap, DropAll(storage, cacheKeys), NULL, "throw", TRUE)
        ELSE Out(EmptyMap, Drop(DropAll(storage, cacheKeys), METADATA_KEY),
                 NULL, "cleared", FALSE)

clearCatch(r) == [r EXCEPT !.log = "clear error", !.threw = FALSE]

clear(fail, done) ==
    LET r == clearTry(fail, done)
    IN  IF r.threw THEN clearCatch(r) ELSE r

----------------------------------------------------------------------------
(* cleanExpired() *)

\* `bad`: the storage keys whose getItem rejects inside the loop
cleanExpiredTry(fail, bad, done) ==
    LET cacheKeys == cacheKeysOf(storage)
        \* inner catch: the read or JSON.parse threw
        unreadable == {k \in cacheKeys : k \in bad \/ ~canParse(storage[k])}
        invalid == {k \in cacheKeys \ unreadable :
                        ~isValidCacheItem(parse(storage[k]))}
        expiredKeys == unreadable \cup invalid
        mem1 == DropAll(memoryCache, {replaceFirst(k, CACHE_PREFIX) : k \in invalid})
    IN  IF "getAllKeys" \in fail
        THEN Out(memoryCache, storage, NULL, "throw", TRUE)
        ELSE IF expiredKeys # {} /\ "multiRemove" \in fail
        THEN Out(mem1, DropAll(storage, done \cap expiredKeys), NULL, "throw", TRUE)
        ELSE Out(mem1, DropAll(storage, expiredKeys), NULL, "cleaned", FALSE)

cleanExpiredCatch(r) == [r EXCEPT !.log = "cleanup error", !.threw = FALSE]

cleanExpired(fail, bad, done) ==
    LET r == cleanExpiredTry(fail, bad, done)
    IN  IF r.threw THEN cleanExpiredCatch(r) ELSE r

----------------------------------------------------------------------------
(* getStats(): the two counts *)

getStatsTry(fail) ==
    IF "getAllKeys" \in fail
    THEN Out(memoryCache, storage, NULL, "throw", TRUE)
    ELSE [Out(memoryCache, storage, NULL, "stats", FALSE) EXCEPT
            !.stats = [memoryEntries |-> Cardinality(DOMAIN memoryCache),
                       storageEntries |-> Cardinality(cacheKeysOf(storage))]]

getStatsCatch(r) ==
    [r EXCEPT !.log = "stats error", !.threw = FALSE, !.stats = NoStats]

getStats(fail) ==
    LET r == getStatsTry(fail)
    IN  IF r.threw THEN getStatsCatch(r) ELSE r

----------------------------------------------------------------------------
(* invalidatePattern(pattern) *)

invalidatePatternTry(pattern, fail, done) ==
    LET matchingKeys == {k \in DOMAIN storage :
                            startsWith(k, CACHE_PREFIX) /\ includes(k, pattern)}
    IN  IF "getAllKeys" \in fail
        THEN Out(memoryCache, storage, NULL, "throw", TRUE)
        ELSE IF matchingKeys = {}
        THEN Out(memoryCache, storage, NULL, "none", FALSE)
        ELSE IF "multiRemove" \in fail
        THEN Out(memoryCache, DropAll(storage, done \cap matchingKeys),
                 NULL, "throw", TRUE)
        ELSE Out(DropAll(memoryCache,
                         {k \in DOMAIN memoryCache : includes(k, pattern)}),
                 DropAll(storage, matchingKeys), NULL, "Invalidated", FALSE)

invalidatePatternCatch(r) ==
    [r EXCEPT !.log = "invalidation error", !.threw = FALSE]

invalidatePattern(pattern, fail, done) ==
    LET r == invalidatePatternTry(pattern, fail, done)
    IN  IF r.threw THEN invalidatePatternCatch(r) ELSE r

----------------------------------------------------------------------------
(* WatchlistStorageService (services/watchlistStorage.ts): the watchlists
   are one JSON array under WATCHLISTS_KEY of the same AsyncStorage *)

STOCK_WATCHLISTS_KEY ==
    <<"f","r","o","w","w","_","s","t","o","c","k","_","w","a","t","c","h","l","i","s","t","s">>

Range(s) == {s[i] : i \in DOMAIN s}

\* String.prototype.trim
RECURSIVE trimStart(_)
trimStart(s) == IF s # <<>> /\ Head(s) = " " THEN trimStart(Tail(s)) ELSE s

RECURSIVE trimEnd(_)
trimEnd(s) ==
    IF s # <<>> /\ s[Len(s)] = " " THEN trimEnd(SubSeq(s, 1, Len(s) - 1)) ELSE s

trim(s) == trimEnd(trimStart(s))

\* Date.now().toString(): the decimal digits of the clock's milliseconds
dateNowToString == ToString(now)

\* new Date().toISOString(): a text that is a function of the clock
toISOString == <<"ISO", ToString(now)>>

\* JSON.stringify of the array of watchlists or of the index object: strings
\* and arrays only
stringifyValue(v) == [parsable |-> TRUE, obj |-> v]

\* getWatchlists(): [] when nothing is stored, and when the read or the
\* parse throws
getWatchlists(store, fail) ==
    IF "getItem" \in fail THEN <<>>
    ELSE IF WATCHLISTS_KEY \notin DOMAIN store THEN <<>>
    ELSE IF ~canParse(store[WATCHLISTS_KEY]) THEN <<>>
    ELSE parse(store[WATCHLISTS_KEY])

\* saveWatchlists(watchlists): rethrows a rejected setItem
saveWatchlists(store, watchlists, fail) ==
    IF "setItem" \in fail
    THEN Out(memoryCache, store, NULL, "throw", TRUE)
    ELSE Out(memoryCache, Put(store, WATCHLISTS_KEY, stringifyValue(watchlists)),
             NULL, "saved", FALSE)

\* the index object built by updateStockWatchlistsIndex
stockWatchlistsMap(watchlists) ==
    [stock \in UNION {Range(w.stocks) : w \in Range(watchlists)} |->
        LET holders == SelectSeq(watchlists, LAMBDA w : stock \in Range(w.stocks))
        IN  [i \in 1..Len(holders) |->
                [symbol |-> stock, addedAt |-> holders[i].updatedAt,
                 watchlistId |-> holders[i].id,
                 watchlistName |-> holders[i].name]]]

\* updateStockWatchlistsIndex(): its catch swallows a rejected write
updateStockWatchlistsIndex(store, fail) ==
    IF "indexSetItem" \in fail THEN store
    ELSE Put(store, STOCK_WATCHLISTS_KEY,
             stringifyValue(stockWatchlistsMap(
                 getWatchlists(store, fail \cap {"indexGetItem"}))))

createWatchlist(name, fail) ==
    LET watchlists == getWatchlists(storage, fail)
        newWatchlist == [id |-> dateNowToString, name |-> trim(name),
                         stocks |-> <<>>, createdAt |-> toISOString,
                         updatedAt |-> toISOString]
        r == saveWatchlists(storage, Append(watchlists, newWatchlist), fail)
    IN  IF r.threw THEN r
        ELSE [r EXCEPT !.ret = newWatchlist, !.log = "Created watchlist"]

deleteWatchlist(watchlistId, fail) ==
    LET watchlists == getWatchlists(storage, fail)
        filteredWatchlists == SelectSeq(watchlists, LAMBDA w : w.id # watchlistId)
        r == saveWatchlists(storage, filteredWatchlists, fail)
    IN  IF r.threw THEN r
        ELSE [r EXCEPT !.store = updateStockWatchlistsIndex(r.store, fail),
                       !.log = "Deleted watchlist"]

updateWatchlistName(watchlistId, newName, fail) ==
    LET watchlists == getWatchlists(storage, fail)
        found == {i \in 1..Len(watchlists) : watchlists[i].id = watchlistId}
    IN  IF found = {}
        THEN Out(memoryCache, storage, NULL, "", FALSE)
        ELSE LET i == CHOOSE j \in found : \A h \in found : j <= h
                 renamed == [watchlists EXCEPT ![i].name = trim(newName),
                                               ![i].updatedAt = toISOString]
                 r == saveWatchlists(storage, renamed, fail)
             IN  IF r.threw THEN r
                 ELSE [r EXCEPT !.log = "Updated watchlist name"]

----------------------------------------------------------------------------
(* SimpleAlphaVantageApi (services/alphaVantageApi.ts): the module's
   response cache and the four fetchers with their fallbacks. A response
   of the network is an input: how the request ended and, for a JSON body,
   the fields of the payload that are present and truthy. *)

\* what getCachedData returns for no usable entry
NoData == [source |-> "none", of |-> <<>>, fields |-> {}]

\* getCachedData(key): an entry past its expiry is deleted
getCachedData(key) ==
    IF key \notin DOMAIN cache
    THEN [cache |-> cache, data |-> NoData]
    ELSE IF now > cache[key].expires
    THEN [cache |-> Drop(cache, key), data |-> NoData]
    ELSE [cache |-> cache, data |-> cache[key].data]

setCachedData(c, key, data, ttlMinutes) ==
    Put(c, key, [data |-> data, expires |-> now + (ttlMinutes * 60 * 1000)])

\* fetchWithTimeout then response.ok and response.json(): the ways a request
\* ends before a payload is there
\* (fetch rejects or is aborted, response.ok is false, json() rejects)
RequestFailed(response) ==
    response.kind \in {"networkError", "abort", "status", "badJson"}

\* data['Error Message'] || data['Note'] || data['Information']
ApiError(response) ==
    response.fields \cap {"Error Message", "Note", "Information"} # {}

ApiOut(c, ret, log) == [cache |-> c, ret |-> ret, log |-> log, threw |-> FALSE]

\* a fetcher that caches what it returns, the fallback too
fetchCached_cachesFallback(cacheKey, symbol, response, required, ttlMinutes, fallback) ==
    LET hit == getCachedData(cacheKey)
        data == [source |-> "network", of |-> symbol, fields |-> response.fields]
    IN  IF hit.data # NoData THEN ApiOut(hit.cache, hit.data, "cached")
        ELSE IF RequestFailed(response)
                \/ ApiError(response) \/ ~(required \subseteq response.fields)
        THEN ApiOut(setCachedData(hit.cache, cacheKey, fallback, ttlMinutes),
                    fallback, "fallback")
        ELSE ApiOut(setCachedData(hit.cache, cacheKey, data, ttlMinutes),
                    data, "fetched")

\* the body the four fetchers share: cache check, request, the checks of the
\* payload, setCachedData of a good payload, and the catch
fetchCached(cacheKey, symbol, response, required, ttlMinutes, fallback) ==
    LET hit == getCachedData(cacheKey)
        data == [source |-> "network", of |-> symbol, fields |-> response.fields]
    IN  IF hit.data # NoData THEN ApiOut(hit.cache, hit.data, "cached")
        ELSE IF RequestFailed(response)
        THEN ApiOut(hit.cache, fallback, "error, fallback")
        ELSE IF ApiError(response)
        THEN ApiOut(hit.cache, fallback, "API issue, fallback")
        ELSE IF ~(required \subseteq response.fields)
        THEN ApiOut(hit.cache, fallback, "invalid data, fallback")
        ELSE ApiOut(setCachedData(hit.cache, cacheKey, data, ttlMinutes),
                    data, "fetched")

getFallbackMarketData ==
    [source |-> "fallback", of |-> <<>>,
     fields |-> {"metadata", "last_updated", "top_gainers", "top_losers",
                 "most_actively_traded"}]

getFallbackCompanyData(symbol) ==
    [source |-> "fallback", of |-> symbol, fields |-> {"Symbol", "Name", "Description"}]

getFallbackQuoteData(symbol) ==
    [source |-> "fallback", of |-> symbol,
     fields |-> {"Global Quote", "Global Quote.05. price"}]

timeSeriesKeyOf(interval) ==
    IF interval = "daily"
    THEN "Time Series (Daily)"
    ELSE "Time Series (" \o interval \o ")"

getFallbackTimeSeriesData(symbol, interval) ==
    [source |-> "fallback", of |-> symbol,
     fields |-> {timeSeriesKeyOf(interval)}]

\* the cache keys: 'top_gainers_losers', `overview_${symbol}`,
\* `quote_${symbol}`, `timeseries_${symbol}_${interval}`
topGainersLosersKey ==
    <<"t","o","p","_","g","a","i","n","e","r","s","_","l","o","s","e","r","s">>
overviewKey(symbol) == <<"o","v","e","r","v","i","e","w","_">> \o symbol
quoteKey(symbol) == <<"q","u","o","t","e","_">> \o symbol
timeseriesKey(symbol, interval) ==
    <<"t","i","m","e","s","e","r","i","e","s","_">> \o symbol \o <<"_", interval>>

\* the fields each fetcher requires of a payload
RequiredOf ==
    [market |-> {"top_gainers", "top_losers"},
     overview |-> {"Symbol", "Name"},
     quote |-> {"Global Quote", "Global Quote.05. price"}]
RequiredOfSeries(interval) == {timeSeriesKeyOf(interval)}

getTopGainersLosers(response) ==
    fetchCached(topGainersLosersKey, <<>>, response,
                RequiredOf.market, 5, getFallbackMarketData)

getCompanyOverview(symbol, response) ==
    fetchCached(overviewKey(symbol), symbol, response,
                RequiredOf.overview, 30, getFallbackCompanyData(symbol))

getGlobalQuote(symbol, response) ==
    fetchCached(quoteKey(symbol), symbol, response,
                RequiredOf.quote, 2, getFallbackQuoteData(symbol))

getTimeSeriesData(symbol, interval, response) ==
    fetchCached(timeseriesKey(symbol, interval), symbol, response,
                RequiredOfSeries(interval),
                IF interval = "daily" THEN 60 ELSE 10,
                getFallbackTimeSeriesData(symbol, interval))

----------------------------------------------------------------------------
(* What the callers pass *)

K_quote_A == <<"q", "u", "o", "t", "e", "_", "A">>
K_chart_A == <<"c", "h", "a", "r", "t", "_", "A">>
K_metadata == <<"m", "e", "t", "a", "d", "a", "t", "a">>

K_profile_quote == S_profile \o <<"_">> \o S_quote

\* keys of each class of the TTL table, and keys in which several
\* classification substrings occur
AllKeys ==
    {K_quote_A, K_chart_A, K_metadata,
     S_top_gainers_losers,
     S_overview \o <<"_", "A">>,
     S_profile \o <<"_", "A">>,
     S_historical \o <<"_", "A">>,
     <<"t", "i", "m", "e", "s", "e", "r", "i", "e", "s", "_">> \o S_intraday \o <<"_", "A">>,
     <<"t", "i", "m", "e", "s", "e", "r", "i", "e", "s", "_">> \o S_daily \o <<"_", "A">>,
     K_profile_quote,
     S_quote \o <<"_">> \o S_top_gainers_losers,
     S_intraday \o <<"_">> \o S_top_gainers_losers,
     S_overview \o <<"_">> \o S_intraday,
     S_daily \o <<"_">> \o S_overview,
     S_profile \o <<"_">> \o S_daily,
     S_historical \o <<"_">> \o S_profile}

P_cache == <<"c", "a", "c", "h", "e", "_">>

\* payloads
D_null == "null"
D_zero == "0"
D_false == "false"
D_empty == "\"\""
D_obj == "{price:185.3}"

Patterns == {K_chart_A, S_quote, P_cache}

\* CacheKeys: the key generators, over the symbols "A" and "quote", the
\* interval "5min" and the period "1D"
CacheKeys ==
    LET symbols == {<<"A">>, S_quote}
        intervals == {<<"5","m","i","n">>}
        periods == {<<"1","D">>}
        timeseries == <<"t","i","m","e","s","e","r","i","e","s","_">>
    IN  [topGainersLosers |-> S_top_gainers_losers,
         companyOverview |-> [symbol \in symbols |-> S_overview \o <<"_">> \o symbol],
         globalQuote |-> [symbol \in symbols |-> S_quote \o <<"_">> \o symbol],
         timeSeriesIntraday |->
            [a \in symbols \X intervals |->
                timeseries \o S_intraday \o <<"_">> \o a[1] \o <<"_">> \o a[2]],
         timeSeriesDaily |->
            [symbol \in symbols |-> timeseries \o S_daily \o <<"_">> \o symbol],
         chartData |->
            [a \in symbols \X periods |->
                <<"c","h","a","r","t","_">> \o a[1] \o <<"_">> \o a[2]]]

\* The runs: what the callers pass in each of them.
\*   core:  the application, two keys, a payload and null
\*   key:   one key out of AllKeys per run, every kind of payload
\*   fault: AsyncStorage calls reject and stored strings get damaged
\*   meta:  one of the keys is the string "metadata", whose storage key is
\*          the METADATA_KEY
\*   canon: one key per run, made by one of the CacheKeys generators
\*   ttl:   set is passed a customTTL: none, 0, and minutes below and above
\*          the quote table entry
\*   conc:  sets of one key overlap
\*   race:  sets, gets and removes of one key overlap, a set may be passed
\*          a customTTL above the quote table entry
Workloads ==
    [core |-> [keys |-> {K_quote_A, K_chart_A}, datas |-> {D_obj, D_null},
               ttls |-> {NoTTL}, versions |-> Versions],
     key |-> {[keys |-> {k},
               datas |-> {D_null, D_zero, D_false, D_empty, D_obj, UNDEFINED},
               ttls |-> {NoTTL},
               versions |-> {InitialVersion}] : k \in AllKeys},
     fault |-> [keys |-> {K_quote_A}, datas |-> {D_obj, D_null},
                ttls |-> {NoTTL}, versions |-> Versions],
     meta |-> [keys |-> {K_quote_A, K_metadata}, datas |-> {D_obj},
               ttls |-> {NoTTL}, versions |-> {InitialVersion}],
     canon |-> {[keys |-> {k}, datas |-> {D_obj}, ttls |-> {NoTTL},
                 versions |-> {InitialVersion}] :
                    k \in {CacheKeys.topGainersLosers}
                          \cup UNION {{CacheKeys[g][a] : a \in DOMAIN CacheKeys[g]} :
                                        g \in DOMAIN CacheKeys \ {"topGainersLosers"}}},
     ttl |-> [keys |-> {K_quote_A}, datas |-> {D_obj}, ttls |-> {NoTTL, 0, 1, 3},
              versions |-> {InitialVersion}],
     conc |-> [keys |-> {K_quote_A}, datas |-> {D_obj, D_zero},
               ttls |-> {NoTTL}, versions |-> {InitialVersion}],
     race |-> [keys |-> {K_quote_A}, datas |-> {D_obj, D_zero},
               ttls |-> {NoTTL, 5}, versions |-> {InitialVersion}]]

----------------------------------------------------------------------------
(* State machine *)

Storage0 == Put(EmptyMap, WATCHLISTS_KEY, stringify(EmptyMap))

\* the record of an operation; `changed`: it changed one of the tiers
Op(op, key, val, ttl, r) ==
    [op |-> op, key |-> key, val |-> val, ttl |-> ttl, ret |-> r.ret,
     log |-> r.log, threw |-> r.threw, stats |-> r.stats, item |-> r.item,
     changed |-> (r.mem # memoryCache \/ r.store # storage)]

NoOp ==
    [op |-> "none", key |-> <<>>, val |-> NULL, ttl |-> NoTTL, ret |-> NULL,
     log |-> "", threw |-> FALSE, stats |-> NoStats, item |-> EmptyMap,
     changed |-> FALSE]

\* new EnhancedCacheManager() over a store that holds no cache entry yet
Init ==
    /\ now = 0
    /\ version = InitialVersion
    /\ memoryCache = EmptyMap
    /\ storage = Storage0
    /\ last = NoOp
    /\ cache = EmptyMap
    /\ calls = <<>>
    /\ workload = Workloads.core

Apply(r) ==
    /\ memoryCache' = r.mem
    /\ storage' = r.store
    /\ UNCHANGED <<now, version, workload, cache, calls>>

Get(key, fail) ==
    LET r == get(key, fail)
    IN  Apply(r) /\ last' = Op("get", key, NULL, NoTTL, r)

Set(key, data, customTTL, fail) ==
    LET r == set(key, data, customTTL, fail)
    IN  Apply(r) /\ last' = Op("set", key, data, customTTL, r)

Remove(key, fail) ==
    LET r == remove(memoryCache, storage, key, fail)
    IN  Apply(r) /\ last' = Op("remove", key, NULL, NoTTL, r)

Clear(fail, done) ==
    LET r == clear(fail, done)
    IN  Apply(r) /\ last' = Op("clear", <<>>, NULL, NoTTL, r)

CleanExpired(fail, bad, done) ==
    LET r == cleanExpired(fail, bad, done)
    IN  Apply(r) /\ last' = Op("cleanExpired", <<>>, NULL, NoTTL, r)

GetStats(fail) ==
    LET r == getStats(fail)
    IN  Apply(r) /\ last' = Op("getStats", <<>>, NULL, NoTTL, r)

InvalidatePattern(pattern, fail, done) ==
    LET r == invalidatePattern(pattern, fail, done)
    IN  Apply(r) /\ last' = Op("invalidatePattern", pattern, NULL, NoTTL, r)

\* the clock advances
Tick ==
    /\ now + (TickMinutes * 60 * 1000) <= MaxMinutes * 60 * 1000
    /\ now' = now + (TickMinutes * 60 * 1000)
    /\ last' = NoOp
    /\ UNCHANGED <<version, memoryCache, storage, workload, cache, calls>>

\* the process restarts, possibly as a build with another config.version:
\* the Maps are new and no call is pending, AsyncStorage is what it was
Restart(v) ==
    /\ memoryCache' = EmptyMap
    /\ version' = v
    /\ last' = NoOp
    /\ cache' = EmptyMap
    /\ calls' = <<>>
    /\ UNCHANGED <<now, storage, workload>>

\* a stored cache string is damaged outside the manager
Corrupt(storageKey) ==
    /\ storageKey \in cacheKeysOf(storage)
    /\ storage[storageKey] # Garbage
    /\ storage' = Put(storage, storageKey, Garbage)
    /\ last' = NoOp
    /\ UNCHANGED <<now, version, memoryCache, workload, cache, calls>>

Next ==
    \/ \E k \in workload.keys, d \in workload.datas, t \in workload.ttls :
            Set(k, d, t, {})
    \/ \E k \in workload.keys : Get(k, {})
    \/ \E k \in workload.keys : Remove(k, {})
    \/ Clear({}, {})
    \/ CleanExpired({}, {}, {})
    \/ GetStats({})
    \/ \E p \in Patterns : InvalidatePattern(p, {}, {})
    \/ Tick
    \/ \E v \in workload.versions : Restart(v)

Spec == Init /\ [][Next]_vars

\* new EnhancedCacheManager() over a store that holds no cache entry yet, in
\* the run with workload w
InitWith(w) ==
    /\ now = 0
    /\ version = InitialVersion
    /\ memoryCache = EmptyMap
    /\ storage = Storage0
    /\ last = NoOp
    /\ cache = EmptyMap
    /\ calls = <<>>
    /\ workload = w

\* one key per run, drawn from AllKeys
SpecKey == (\E w \in Workloads.key : InitWith(w)) /\ [][Next]_vars

\* set is passed customTTLs
SpecTTL == InitWith(Workloads.ttl) /\ [][Next]_vars

\* the keys are made by the CacheKeys generators
SpecCanon == (\E w \in Workloads.canon : InitWith(w)) /\ [][Next]_vars

\* a key "metadata" beside another key
SpecMeta == InitWith(Workloads.meta) /\ [][Next]_vars

\* The rejections of one handler run that end differently: a call that
\* rejects ends the try block it is in, so the calls after it are not made.
Faults ==
    [set |-> {{}, {"setItem"}, {"metaGetItem"}, {"metaSetItem"}},
     get |-> {{}, {"getItem"}, {"removeItem"}},
     remove |-> {{}, {"removeItem"}},
     clear |-> {{}, {"getAllKeys"}, {"multiRemove"}, {"removeItem"}},
     sweep |-> {{}, {"getAllKeys"}, {"multiRemove"}}]

\* what a multiRemove that rejects may have removed before it did
PartlyDone(f) ==
    IF "multiRemove" \in f THEN SUBSET cacheKeysOf(storage) ELSE {{}}

\* the reads of the sweep's loop that may reject
BadReads(f) ==
    IF "getAllKeys" \in f THEN {{}} ELSE SUBSET cacheKeysOf(storage)

NextFault ==
    \/ \E k \in workload.keys, d \in workload.datas, t \in workload.ttls,
           f \in Faults.set : Set(k, d, t, f)
    \/ \E k \in workload.keys, f \in Faults.get : Get(k, f)
    \/ \E k \in workload.keys, f \in Faults.remove : Remove(k, f)
    \/ \E f \in Faults.clear : \E done \in PartlyDone(f) : Clear(f, done)
    \/ \E f \in Faults.sweep :
            \E bad \in BadReads(f), done \in PartlyDone(f) :
                CleanExpired(f, bad, done)
    \/ \E f \in {{}, {"getAllKeys"}} : GetStats(f)
    \/ \E p \in Patterns, f \in Faults.sweep :
            \E done \in PartlyDone(f) : InvalidatePattern(p, f, done)
    \/ \E sk \in DOMAIN storage : Corrupt(sk)
    \/ Tick
    \/ \E v \in workload.versions : Restart(v)

\* AsyncStorage calls reject, stored strings get damaged
SpecFault == InitWith(Workloads.fault) /\ [][NextFault]_vars

----------------------------------------------------------------------------
(* The watchlist service as a state machine *)

MaxWatchlists == 3   \* createWatchlist is called while fewer are stored

\* names passed: two that are equal once trimmed, and another
WatchlistNames ==
    {<<"T","e","c","h">>, <<" ","T","e","c","h"," ">>, <<"A","u","t","o">>}

\* the id of no watchlist
UnknownId == "0000"

\* rejections of one handler run of the watchlist service
WatchFaults == {{}, {"getItem"}, {"setItem"}, {"indexSetItem"}}

StoredWatchlists == getWatchlists(storage, {})

WatchlistIds == {w.id : w \in Range(StoredWatchlists)} \cup {UnknownId}

CreateWatchlist(name, fail) ==
    /\ Len(StoredWatchlists) < MaxWatchlists
    /\ LET r == createWatchlist(name, fail)
       IN  Apply(r) /\ last' = Op("createWatchlist", name, NULL, NoTTL, r)

DeleteWatchlist(watchlistId, fail) ==
    LET r == deleteWatchlist(watchlistId, fail)
    IN  Apply(r) /\ last' = Op("deleteWatchlist", <<>>, watchlistId, NoTTL, r)

UpdateWatchlistName(watchlistId, newName, fail) ==
    LET r == updateWatchlistName(watchlistId, newName, fail)
    IN  Apply(r) /\ last' = Op("updateWatchlistName", newName, watchlistId, NoTTL, r)

NextWatch ==
    \/ \E n \in WatchlistNames, f \in WatchFaults \ {{"indexSetItem"}} :
            CreateWatchlist(n, f)
    \/ \E id \in WatchlistIds, f \in WatchFaults : DeleteWatchlist(id, f)
    \/ \E id \in WatchlistIds, n \in WatchlistNames,
          f \in WatchFaults \ {{"indexSetItem"}} : UpdateWatchlistName(id, n, f)
    \/ Tick

SpecWatch == Init /\ [][NextWatch]_vars

----------------------------------------------------------------------------
(* The API service as a state machine *)

Symbols == {<<"A">>}
Intervals == {"daily", "5min"}

\* the responses a fetcher that requires `required` may get: the request
\* fails; a payload with an API error field, alone or beside the required
\* fields; a payload with all, some or none of the required fields
Responses(required) ==
    {[kind |-> k, fields |-> {}] : k \in {"networkError", "abort", "status", "badJson"}}
    \cup {[kind |-> "json", fields |-> f] :
            f \in {{"Error Message"}, {"Note"}, {"Information"},
                   required \cup {"Note"}}
                \cup SUBSET required}

\* a fetcher's run r: the cache it leaves, and the record of its cache key
\* and of what it resolved with
ApplyApi(op, key, r) ==
    /\ cache' = r.cache
    /\ last' = [NoOp EXCEPT !.op = op, !.key = key, !.ret = r.ret,
                            !.log = r.log, !.threw = r.threw,
                            !.changed = (r.cache # cache)]
    /\ UNCHANGED <<now, version, memoryCache, storage, workload, calls>>

GetTopGainersLosers(response) ==
    ApplyApi("getTopGainersLosers", topGainersLosersKey,
             getTopGainersLosers(response))

GetCompanyOverview(symbol, response) ==
    ApplyApi("getCompanyOverview", overviewKey(symbol),
             getCompanyOverview(symbol, response))

GetGlobalQuote(symbol, response) ==
    ApplyApi("getGlobalQuote", quoteKey(symbol),
             getGlobalQuote(symbol, response))

GetTimeSeriesData(symbol, interval, response) ==
    ApplyApi("getTimeSeriesData", timeseriesKey(symbol, interval),
             getTimeSeriesData(symbol, interval, response))

\* clearCache()
ClearCache ==
    /\ cache' = EmptyMap
    /\ last' = [NoOp EXCEPT !.op = "clearCache", !.changed = (cache # EmptyMap)]
    /\ UNCHANGED <<now, version, memoryCache, storage, workload, calls>>

NextApi ==
    \/ \E response \in Responses(RequiredOf.market) : GetTopGainersLosers(response)
    \/ \E symbol \in Symbols, response \in Responses(RequiredOf.overview) :
            GetCompanyOverview(symbol, response)
    \/ \E symbol \in Symbols, response \in Responses(RequiredOf.quote) :
            GetGlobalQuote(symbol, response)
    \/ \E symbol \in Symbols, interval \in Intervals :
            \E response \in Responses(RequiredOfSeries(interval)) :
                GetTimeSeriesData(symbol, interval, response)
    \/ ClearCache
    \/ Tick

SpecApi == Init /\ [][NextApi]_vars

----------------------------------------------------------------------------
(* set(key, data, customTTL) step by step: a call runs from one await to the
   next, and other calls run in between. The awaits of set: setItem of the
   entry (line 103), then in updateCacheMetadata getItem of the metadata
   record (line 328) and setItem of the record (line 319). *)

MaxCalls == 2        \* calls started step by step in one run

\* a set called and run to its first await with the Map left for later
setCalled_memoryLater(key, data, customTTL) ==
    LET ttlMinutes == ttlMinutesOf(key, customTTL)
        cacheItem == newCacheItem(data, ttlMinutes)
    IN  [mem |-> memoryCache,
         call |-> [op |-> "set", key |-> key, data |-> data, item |-> cacheItem,
                   ttl |-> ttlMinutes, pc |-> "setItem", metadata |-> EmptyMap,
                   read |-> {}, log |-> ""]]

\* set is called and runs to its first await: the item is in the Map, the
\* setItem of the entry is pending
setCalled(key, data, customTTL) ==
    LET ttlMinutes == ttlMinutesOf(key, customTTL)
        cacheItem == newCacheItem(data, ttlMinutes)
    IN  [mem |-> Put(memoryCache, key, cacheItem),
         call |-> [op |-> "set", key |-> key, data |-> data, item |-> cacheItem,
                   ttl |-> ttlMinutes, pc |-> "setItem", metadata |-> EmptyMap,
                   read |-> {}, log |-> ""]]

\* the setItem of the entry resolves; updateCacheMetadata starts its read
setItemResolved(c) ==
    [store |-> Put(storage, storageKeyOf(c.key), stringify(c.item)),
     call |-> [c EXCEPT !.pc = "metaGetItem"]]

\* the read of the metadata record resolves; the record with this key's
\* field is made and its setItem is pending
metaGetItemResolved(c) ==
    [store |-> storage,
     call |-> [c EXCEPT !.pc = "metaSetItem",
                        !.metadata =
                            Put(getCacheMetadata(storage, {}), c.key,
                                [lastUpdated |-> now, ttl |-> c.ttl,
                                 size |-> Len(c.key) + 10])]]

\* the setItem of the metadata record resolves; set logs and returns
metaSetItemResolved(c) ==
    [store |-> Put(storage, METADATA_KEY, stringify(c.metadata)),
     call |-> [c EXCEPT !.pc = "done"]]

SetCalled(key, data, customTTL) ==
    /\ Len(calls) < MaxCalls
    /\ LET r == setCalled(key, data, customTTL)
       IN  /\ memoryCache' = r.mem
           /\ calls' = Append(calls, r.call)
    /\ last' = NoOp
    /\ UNCHANGED <<now, version, storage, workload, cache>>

\* the call at index i resumes from the await it is at
Resume(i, r) ==
    /\ storage' = r.store
    /\ calls' = [calls EXCEPT ![i] = r.call]
    /\ last' = NoOp
    /\ UNCHANGED <<now, version, memoryCache, workload, cache>>

SetItemResolved(i) ==
    /\ calls[i].pc = "setItem"
    /\ Resume(i, setItemResolved(calls[i]))

MetaGetItemResolved(i) ==
    /\ calls[i].pc = "metaGetItem"
    /\ Resume(i, metaGetItemResolved(calls[i]))

MetaSetItemResolved(i) ==
    /\ calls[i].pc = "metaSetItem"
    /\ Resume(i, metaSetItemResolved(calls[i]))

NextConc ==
    \/ \E k \in workload.keys, d \in workload.datas, t \in workload.ttls :
            SetCalled(k, d, t)
    \/ \E i \in DOMAIN calls : SetItemResolved(i)
    \/ \E i \in DOMAIN calls : MetaGetItemResolved(i)
    \/ \E i \in DOMAIN calls : MetaSetItemResolved(i)
    \/ \E k \in workload.keys : Get(k, {})
    \/ Tick

SpecConc == InitWith(Workloads.conc) /\ [][NextConc]_vars

----------------------------------------------------------------------------
(* get and remove, step by step *)

\* get is called: a valid item of the Map is returned at once; otherwise get
\* runs to its first await, the getItem of the entry
GetCalled(key) ==
    /\ Len(calls) < MaxCalls
    /\ LET hit == key \in DOMAIN memoryCache /\ isValidCacheItem(memoryCache[key])
           c == [op |-> "get", key |-> key, data |-> NULL, item |-> EmptyMap,
                 ttl |-> NoTTL, pc |-> "getItem", metadata |-> EmptyMap,
                 read |-> {}, log |-> ""]
       IN  calls' = Append(calls,
                IF hit
                THEN [c EXCEPT !.data = memoryCache[key][F_data],
                               !.item = memoryCache[key],
                               !.pc = "done", !.log = "HIT (Memory)"]
                ELSE c)
    /\ last' = NoOp
    /\ UNCHANGED <<now, version, memoryCache, storage, workload, cache>>

\* AsyncStorage reads the entry for the get at index i; the result (`read`:
\* the string found, none for null) is on its way to the get, which has not
\* resumed yet
GetItemRead(i) ==
    /\ calls[i].op = "get"
    /\ calls[i].pc = "getItem"
    /\ LET storageKey == storageKeyOf(calls[i].key)
       IN  Resume(i, [store |-> storage,
                      call |-> [calls[i] EXCEPT
                                  !.pc = "getItemRead",
                                  !.read = IF storageKey \in DOMAIN storage
                                           THEN {storage[storageKey]}
                                           ELSE {}]])

\* the get at index i resumes with what was read: nothing is a MISS, a
\* string that does not parse ends in the catch block, a valid item is put
\* in the Map and returned, an invalid one starts remove(key), which deletes
\* the key from the Map and awaits removeItem
GetResumed(i) ==
    /\ calls[i].op = "get"
    /\ calls[i].pc = "getItemRead"
    /\ LET c == calls[i]
           cachedData == CHOOSE text \in c.read : TRUE
           cacheItem == parse(cachedData)
       IN  IF c.read = {}
           THEN /\ calls' = [calls EXCEPT ![i] = [c EXCEPT !.pc = "done", !.log = "MISS"]]
                /\ memoryCache' = memoryCache
           ELSE IF ~canParse(cachedData)
           THEN /\ calls' = [calls EXCEPT ![i] = [c EXCEPT !.pc = "done", !.log = "get error"]]
                /\ memoryCache' = memoryCache
           ELSE IF isValidCacheItem(cacheItem)
           THEN /\ calls' = [calls EXCEPT ![i] =
                                [c EXCEPT !.pc = "done", !.log = "HIT (Storage)",
                                          !.item = cacheItem,
                                          !.data = cacheItem[F_data]]]
                /\ memoryCache' = Put(memoryCache, c.key, cacheItem)
           ELSE /\ calls' = [calls EXCEPT ![i] =
                                [c EXCEPT !.pc = "removeItem", !.item = cacheItem]]
                /\ memoryCache' = Drop(memoryCache, c.key)
    /\ last' = NoOp
    /\ UNCHANGED <<now, version, storage, workload, cache>>

\* remove is called and runs to its await: the key is deleted from the Map,
\* the removeItem of the entry is pending
RemoveCalled(key) ==
    /\ Len(calls) < MaxCalls
    /\ memoryCache' = Drop(memoryCache, key)
    /\ calls' = Append(calls,
            [op |-> "remove", key |-> key, data |-> NULL, item |-> EmptyMap,
             ttl |-> NoTTL, pc |-> "removeItem", metadata |-> EmptyMap,
             read |-> {}, log |-> ""])
    /\ last' = NoOp
    /\ UNCHANGED <<now, version, storage, workload, cache>>

\* the removeItem of remove(key) resolves, for a remove that was called or
\* for the one a get started; remove logs and returns, and so does the get
RemoveItemResolved(i) ==
    /\ calls[i].pc = "removeItem"
    /\ Resume(i, [store |-> Drop(storage, storageKeyOf(calls[i].key)),
                  call |-> [calls[i] EXCEPT
                              !.pc = "done",
                              !.log = IF calls[i].op = "get" THEN "EXPIRED"
                                      ELSE "Removed"]])

NextRace ==
    \/ NextConc
    \/ \E k \in workload.keys : GetCalled(k)
    \/ \E i \in DOMAIN calls : GetItemRead(i)
    \/ \E i \in DOMAIN calls : GetResumed(i)
    \/ \E k \in workload.keys : RemoveCalled(k)
    \/ \E i \in DOMAIN calls : RemoveItemResolved(i)
    \/ \E v \in workload.versions : Restart(v)

\* sets, gets and removes of one key overlap
SpecRace == InitWith(Workloads.race) /\ [][NextRace]_vars

----------------------------------------------------------------------------
(* WatchlistStorageService, step by step: each operation awaits its read of
   the watchlists, the write of the list it made of them and, where it
   updates the index, the read and the write of updateStockWatchlistsIndex *)

\* addStockToWatchlists with the push made whether or not the stock is there
addStockToWatchlists_noIncludes(watchlists, stockSymbol, watchlistIds) ==
    [watchlists |->
        [i \in DOMAIN watchlists |->
            IF watchlists[i].id \in watchlistIds
            THEN [watchlists[i] EXCEPT !.stocks = Append(@, stockSymbol),
                                       !.updatedAt = toISOString]
            ELSE watchlists[i]],
     updated |-> \E i \in DOMAIN watchlists : watchlists[i].id \in watchlistIds]

\* addStockToWatchlists, from the watchlists read to the decision to save:
\* the stock is pushed to each selected watchlist that does not hold it
addStockToWatchlists(watchlists, stockSymbol, watchlistIds) ==
    LET adds(w) == w.id \in watchlistIds /\ stockSymbol \notin Range(w.stocks)
    IN  [watchlists |->
            [i \in DOMAIN watchlists |->
                IF adds(watchlists[i])
                THEN [watchlists[i] EXCEPT !.stocks = Append(@, stockSymbol),
                                           !.updatedAt = toISOString]
                ELSE watchlists[i]],
         updated |-> \E i \in DOMAIN watchlists : adds(watchlists[i])]

\* removeStockFromWatchlist: the first watchlist with the id has the stock
\* filtered out and its updatedAt set, whether or not it held the stock
removeStockFromWatchlist(watchlists, stockSymbol, watchlistId) ==
    LET found == {i \in DOMAIN watchlists : watchlists[i].id = watchlistId}
        first == CHOOSE j \in found : \A h \in found : j <= h
    IN  IF found = {}
        THEN [watchlists |-> watchlists, updated |-> FALSE]
        ELSE [watchlists |->
                [watchlists EXCEPT
                    ![first].stocks = SelectSeq(@, LAMBDA s : s # stockSymbol),
                    ![first].updatedAt = toISOString],
              updated |-> TRUE]

\* removeStockFromAllWatchlists: only the watchlists holding the stock change
removeStockFromAllWatchlists(watchlists, stockSymbol) ==
    LET holds(w) == stockSymbol \in Range(w.stocks)
    IN  [watchlists |->
            [i \in DOMAIN watchlists |->
                IF holds(watchlists[i])
                THEN [watchlists[i] EXCEPT
                        !.stocks = SelectSeq(@, LAMBDA s : s # stockSymbol),
                        !.updatedAt = toISOString]
                ELSE watchlists[i]],
         updated |-> \E i \in DOMAIN watchlists : holds(watchlists[i])]

\* the operations that end with updateStockWatchlistsIndex()
IndexingOps ==
    {"deleteWatchlist", "addStockToWatchlists", "removeStockFromWatchlist",
     "removeStockFromAllWatchlists"}

\* an operation is called and awaits getWatchlists(); `overlapped`: it ran
\* while another operation was pending; `watchlists`: the list an awaited
\* write is to store; `made`: the watchlist a createWatchlist returns
WatchCalled(op, name, stockSymbol, watchlistIds) ==
    /\ Len(calls) < MaxCalls
    /\ LET pending == {i \in DOMAIN calls : calls[i].pc # "done"}
       IN  calls' = Append(
                [i \in DOMAIN calls |->
                    IF i \in pending THEN [calls[i] EXCEPT !.overlapped = TRUE]
                    ELSE calls[i]],
                [op |-> op, name |-> name, symbol |-> stockSymbol,
                 ids |-> watchlistIds, pc |-> "getItem", watchlists |-> <<>>,
                 made |-> {}, overlapped |-> pending # {}])
    /\ last' = NoOp
    /\ UNCHANGED <<now, version, memoryCache, storage, workload, cache>>

\* getWatchlists() resolves for the operation at index i, which makes the
\* list it will save and awaits saveWatchlists, or has nothing to save and
\* returns
WatchlistsRead(i) ==
    /\ calls[i].pc = "getItem"
    /\ calls[i].op \in IndexingOps \cup {"createWatchlist", "updateWatchlistName"}
    /\ LET c == calls[i]
           watchlists == StoredWatchlists
           id == CHOOSE x \in c.ids : TRUE
           saved(r) == [watchlists |-> getWatchlists(r.store, {}),
                        updated |-> r.log # ""]
           made == CASE c.op = "createWatchlist" ->
                            saved(createWatchlist(c.name, {}))
                     [] c.op = "updateWatchlistName" ->
                            saved(updateWatchlistName(id, c.name, {}))
                     [] c.op = "deleteWatchlist" ->
                            saved(deleteWatchlist(id, {}))
                     [] c.op = "addStockToWatchlists" ->
                            addStockToWatchlists(watchlists, c.symbol, c.ids)
                     [] c.op = "removeStockFromWatchlist" ->
                            removeStockFromWatchlist(watchlists, c.symbol, id)
                     [] c.op = "removeStockFromAllWatchlists" ->
                            removeStockFromAllWatchlists(watchlists, c.symbol)
       IN  calls' = [calls EXCEPT ![i] =
                [c EXCEPT !.pc = IF made.updated THEN "setItem" ELSE "done",
                          !.watchlists = IF made.updated THEN made.watchlists
                                         ELSE <<>>,
                          !.made = IF c.op = "createWatchlist"
                                   THEN {createWatchlist(c.name, {}).ret}
                                   ELSE {}]]
    /\ last' = NoOp
    /\ UNCHANGED <<now, version, memoryCache, storage, workload, cache>>

\* saveWatchlists resolves for the operation at index i, which returns or
\* goes on to updateStockWatchlistsIndex() and awaits its getWatchlists()
WatchlistsSaved(i) ==
    /\ calls[i].pc = "setItem"
    /\ calls[i].op \in IndexingOps \cup {"createWatchlist", "updateWatchlistName"}
    /\ storage' = saveWatchlists(storage, calls[i].watchlists, {}).store
    /\ calls' = [calls EXCEPT ![i].pc = IF calls[i].op \in IndexingOps
                                        THEN "indexGetItem" ELSE "done",
                              ![i].watchlists = <<>>]
    /\ last' = NoOp
    /\ UNCHANGED <<now, version, memoryCache, workload, cache>>

\* the getWatchlists() of updateStockWatchlistsIndex resolves; the index of
\* the watchlists read is made and its setItem awaited
IndexRead(i) ==
    /\ calls[i].pc = "indexGetItem"
    /\ calls' = [calls EXCEPT ![i].pc = "indexSetItem",
                              ![i].watchlists = StoredWatchlists]
    /\ last' = NoOp
    /\ UNCHANGED <<now, version, memoryCache, storage, workload, cache>>

\* the setItem of the index resolves; the operation returns
IndexSaved(i) ==
    /\ calls[i].pc = "indexSetItem"
    /\ storage' = Put(storage, STOCK_WATCHLISTS_KEY,
                      stringifyValue(stockWatchlistsMap(calls[i].watchlists)))
    /\ calls' = [calls EXCEPT ![i].pc = "done", ![i].watchlists = <<>>]
    /\ last' = NoOp
    /\ UNCHANGED <<now, version, memoryCache, workload, cache>>

\* What earlier sessions left in AsyncStorage when the service starts: no
\* watchlist, or two watchlists created one clock advance apart, "Tech" with
\* the stock A added to it at once and "Auto" with none, and the index that
\* the addStockToWatchlists call wrote.
InitStocks ==
    /\ now = TickMinutes * 60 * 1000
    /\ version = InitialVersion
    /\ memoryCache = EmptyMap
    /\ last = NoOp
    /\ cache = EmptyMap
    /\ calls = <<>>
    /\ workload = Workloads.core
    /\ LET tech == [id |-> "0", name |-> <<"T","e","c","h">>,
                    stocks |-> <<<<"A">>>>, createdAt |-> <<"ISO", "0">>,
                    updatedAt |-> <<"ISO", "0">>]
           auto == [id |-> ToString(now), name |-> <<"A","u","t","o">>,
                    stocks |-> <<>>, createdAt |-> <<"ISO", ToString(now)>>,
                    updatedAt |-> <<"ISO", ToString(now)>>]
       IN  storage \in
            {Storage0,
             Put(Put(EmptyMap, WATCHLISTS_KEY, stringifyValue(<<tech, auto>>)),
                 STOCK_WATCHLISTS_KEY,
                 stringifyValue(stockWatchlistsMap(<<tech>>)))}

NextStocks ==
    \/ \E n \in {x \in WatchlistNames : trim(x) = x} :
            WatchCalled("createWatchlist", n, <<>>, {})
    \/ \E id \in WatchlistIds \ {UnknownId} :
            WatchCalled("updateWatchlistName", <<"A","u","t","o">>, <<>>, {id})
    \/ \E id \in WatchlistIds : WatchCalled("deleteWatchlist", <<>>, <<>>, {id})
    \/ \E s \in Symbols :
            \E a \in WatchlistIds \ {UnknownId}, b \in WatchlistIds \ {UnknownId} :
                WatchCalled("addStockToWatchlists", <<>>, s, {a, b})
    \/ \E s \in Symbols, id \in WatchlistIds :
            WatchCalled("removeStockFromWatchlist", <<>>, s, {id})
    \/ \E s \in Symbols :
            WatchCalled("removeStockFromAllWatchlists", <<>>, s, {})
    \/ \E i \in DOMAIN calls : WatchlistsRead(i)
    \/ \E i \in DOMAIN calls : WatchlistsSaved(i)
    \/ \E i \in DOMAIN calls : IndexRead(i)
    \/ \E i \in DOMAIN calls : IndexSaved(i)
    \/ Tick

\* operations of the watchlist service overlap
SpecStocks == InitStocks /\ [][NextStocks]_vars

----------------------------------------------------------------------------
(* Vocabulary of the properties *)

\* the entries of a key in the two tiers, as get may read them
MemEntries(k) == IF k \in DOMAIN memoryCache THEN {memoryCache[k]} ELSE {}

DurEntries(k) ==
    IF storageKeyOf(k) \in DOMAIN storage /\ canParse(storage[storageKeyOf(k)])
    THEN {parse(storage[storageKeyOf(k)])}
    ELSE {}

Entries(k) == MemEntries(k) \cup DurEntries(k)

DataOf(e) == IF F_data \in DOMAIN e THEN e[F_data] ELSE UNDEFINED

Unexpired(e) == F_expiresAt \in DOMAIN e /\ e[F_expiresAt] > now

SameVersion(e) == F_version \in DOMAIN e /\ e[F_version] = version

\* the JSON-serializable payloads of the run
JsonDatas == workload.datas \ {UNDEFINED}

\* the classification table of the specification, in its order
TTLTable ==
    << <<S_quote, 2>>, <<S_top_gainers_losers, 5>>, <<S_intraday, 5>>,
       <<S_overview, 60>>, <<S_daily, 30>>, <<S_profile, 1440>>,
       <<S_historical, 720>> >>

TableTTL(k) ==
    LET rows == {i \in 1..Len(TTLTable) : includes(k, TTLTable[i][1])}
    IN  IF rows = {} THEN 30
        ELSE TTLTable[CHOOSE i \in rows : \A j \in rows : i <= j][2]

----------------------------------------------------------------------------
\* C1: get(k) never returns the data of an expired entry: what it returns is
\* the data of an entry of k with expiresAt > now, and it returns null when
\* every entry of k, in memory or in storage, has expiresAt <= now.
C1_ExpiryEnforced ==
    [][\A k \in workload.keys :
        Get(k, {}) =>
            /\ last'.ret # NULL =>
                  \E e \in Entries(k) : DataOf(e) = last'.ret /\ Unexpired(e)
            /\ (\A e \in Entries(k) : ~Unexpired(e)) => last'.ret = NULL]_vars

\* a get has just found an entry that only its expiry makes invalid
C1_Witness ==
    /\ last.op = "get" /\ last.key = K_quote_A
    /\ last.log = "EXPIRED" /\ last.ret = NULL
    /\ last.item # EmptyMap
    /\ last.item[F_expiresAt] <= now
    /\ last.item[F_version] = version
    /\ DataOf(last.item) = D_obj

\* C2: set(k, v) followed at once by get(k) returns v, for every
\* JSON-serializable v: null, 0, false and the empty string included.
C2_RoundTrip ==
    [][\A k \in workload.keys :
        (last.op = "set" /\ last.key = k /\ last.val \in JsonDatas /\ Get(k, {}))
            => last'.ret = last.val]_vars

\* get has just returned the 0 that the set before it stored
C2_Witness ==
    /\ last.op = "get" /\ last.ret = D_zero
    /\ last.item # EmptyMap
    /\ last.item[F_timestamp] = now
    /\ last.key \in DOMAIN memoryCache

\* C3: set without a customTTL makes an entry with expiresAt - timestamp equal
\* to 60000 ms times the TTL of the first table row whose substring occurs
\* in the key, 30 minutes when none does; the stored copy carries the same.
C3_TTLClassification ==
    (last.op = "set" /\ last.ttl = NoTTL) =>
        /\ last.key \in DOMAIN memoryCache
        /\ \A e \in Entries(last.key) :
              /\ e[F_timestamp] = now
              /\ e[F_expiresAt] - e[F_timestamp] = 60000 * TableTTL(last.key)
        /\ DurEntries(last.key) # {}

\* a key in which "profile" comes before "quote" has just got the quote TTL
C3_Witness ==
    /\ last.op = "set" /\ last.ttl = NoTTL /\ last.key = K_profile_quote
    /\ memoryCache[K_profile_quote][F_expiresAt]
           - memoryCache[K_profile_quote][F_timestamp] = 120000

\* C4: get treats an entry written under another version as absent: what it
\* returns is the data of an entry of k whose version is the current one,
\* and it returns null when no entry of k has the current version.
C4_VersionInvalidation ==
    [][\A k \in workload.keys :
        Get(k, {}) =>
            /\ last'.ret # NULL =>
                  \E e \in Entries(k) : DataOf(e) = last'.ret /\ SameVersion(e)
            /\ (\A e \in Entries(k) : ~SameVersion(e)) => last'.ret = NULL]_vars

\* a get has just found an unexpired entry of another version
C4_Witness ==
    /\ last.op = "get" /\ last.log = "EXPIRED" /\ last.ret = NULL
    /\ last.item # EmptyMap
    /\ last.item[F_version] = "1.0.0" /\ version = "1.0.1"
    /\ last.item[F_expiresAt] > now
    /\ DataOf(last.item) = D_obj

\* what set(k, d) leaves in storage when no call rejects
SetStoresEntry(k, d, t) ==
    /\ storageKeyOf(k) \in DOMAIN storage'
    /\ canParse(storage'[storageKeyOf(k)])
    /\ LET e == parse(storage'[storageKeyOf(k)])
       IN  /\ DataOf(e) = d
           /\ e[F_version] = version
           /\ e[F_timestamp] = now
           /\ e[F_expiresAt] = now + (ttlMinutesOf(k, t) * 60 * 1000)

\* get(k) with no memory entry returns the data of the stored entry e and
\* leaves e in memory
PromotesEntry(k, e) ==
    /\ last'.ret = DataOf(e)
    /\ k \in DOMAIN memoryCache'
    /\ memoryCache'[k] = e

\* C5 as stated: set(k, v) leaves a stored entry for v, and get(k) with an
\* empty memory tier returns v from an unexpired stored entry and holds it in
\* memory afterwards, whatever v is.
C5_AsStated ==
    [][/\ \A k \in workload.keys, d \in JsonDatas, t \in workload.ttls :
            Set(k, d, t, {}) => SetStoresEntry(k, d, t)
       /\ \A k \in workload.keys :
            (Get(k, {}) /\ memoryCache = EmptyMap) =>
                \A e \in DurEntries(k) :
                    (Unexpired(e) /\ SameVersion(e) /\ DataOf(e) \in JsonDatas)
                        => PromotesEntry(k, e)]_vars

\* C5 (amended): the same for every v other than null.
C5_TierPromotion ==
    [][/\ \A k \in workload.keys, d \in JsonDatas, t \in workload.ttls :
            Set(k, d, t, {}) => SetStoresEntry(k, d, t)
       /\ \A k \in workload.keys :
            (Get(k, {}) /\ memoryCache = EmptyMap) =>
                \A e \in DurEntries(k) :
                    (Unexpired(e) /\ SameVersion(e)
                        /\ DataOf(e) \in JsonDatas \ {NULL})
                        => PromotesEntry(k, e)]_vars

\* the key "metadata" has just been promoted from storage into memory
C5_Witness ==
    /\ last.op = "get" /\ last.key = K_metadata
    /\ last.log = "HIT (Storage)" /\ last.ret = D_obj
    /\ K_metadata \in DOMAIN memoryCache
    /\ memoryCache[K_metadata] = parse(storage[METADATA_KEY])

\* an entry get would return: unexpired, of the current version, with data
ValidEntry(e) ==
    Unexpired(e) /\ SameVersion(e) /\ DataOf(e) \notin {NULL, UNDEFINED}

\* key k has the same entry, or none, in both tiers before and after a step
SameEntries(k) ==
    /\ (k \in DOMAIN memoryCache') = (k \in DOMAIN memoryCache)
    /\ k \in DOMAIN memoryCache => memoryCache'[k] = memoryCache[k]
    /\ (storageKeyOf(k) \in DOMAIN storage') = (storageKeyOf(k) \in DOMAIN storage)
    /\ storageKeyOf(k) \in DOMAIN storage =>
            storage'[storageKeyOf(k)] = storage[storageKeyOf(k)]

\* C6 as stated: when invalidatePattern(p) has returned, no key that contains
\* p is left in the memory tier or in storage, and get finds none.
C6_AsStated ==
    (last.op = "invalidatePattern" /\ last.log # "invalidation error") =>
        \A k \in workload.keys :
            includes(k, last.key) =>
                /\ k \notin DOMAIN memoryCache
                /\ storageKeyOf(k) \notin DOMAIN storage
                /\ get(k, {}).ret = NULL

\* C7 as stated: invalidatePattern(p) leaves the entries of every key that
\* does not contain p as they were, in both tiers.
C7_AsStated ==
    [][\A p \in Patterns :
        InvalidatePattern(p, {}, {}) =>
            \A k \in workload.keys : ~includes(k, p) => SameEntries(k)]_vars

\* C8 as stated: after cleanExpired() storage holds all and only the entries
\* that were valid, unchanged; every removed key is gone from memory, also
\* when its stored copy could not be parsed; every remaining key is retrievable.
C8_AsStated ==
    [][CleanExpired({}, {}, {}) =>
        LET cacheKeys == cacheKeysOf(storage)
            valid == {sk \in cacheKeys :
                        /\ canParse(storage[sk])
                        /\ ValidEntry(parse(storage[sk]))}
        IN  /\ cacheKeysOf(storage') = valid
            /\ \A sk \in valid : storage'[sk] = storage[sk]
            /\ \A sk \in cacheKeys \ valid :
                  replaceFirst(sk, CACHE_PREFIX) \notin DOMAIN memoryCache'
            /\ \A k \in workload.keys :
                  storageKeyOf(k) \in valid =>
                      (get(k, {}).ret)' # NULL
       ]_vars

\* C9: remove(k) of a key held in neither tier, and clear() of an empty
\* cache, return normally and change neither tier; a second remove(k) or
\* clear() right after the first changes nothing more.
C9_Idempotence ==
    [][/\ \A k \in workload.keys :
            (Remove(k, {}) /\ (Entries(k) = {} \/ (last.op = "remove" /\ last.key = k)))
                => /\ memoryCache' = memoryCache
                   /\ storage' = storage
                   /\ ~last'.threw
       /\ (Clear({}, {}) /\ ((memoryCache = EmptyMap /\ cacheKeysOf(storage) = {})
                                \/ last.op = "clear"))
                => /\ memoryCache' = memoryCache
                   /\ storage' = storage
                   /\ memoryCache' = EmptyMap
                   /\ cacheKeysOf(storage') = {}
                   /\ ~last'.threw]_vars

\* remove(k) has just returned without a change, with another key cached
C9_Witness ==
    /\ last.op = "remove" /\ ~last.changed /\ ~last.threw
    /\ Entries(last.key) = {}
    /\ memoryCache # EmptyMap

\* C10: no cache operation lets a rejection or a parse error out, and get
\* returns null when its storage read rejects or the stored string does not
\* parse.
C10_NeverThrows ==
    [][/\ ~last'.threw
       /\ \A k \in workload.keys, f \in Faults.get :
            (/\ Get(k, f)
             /\ \A e \in MemEntries(k) : ~ValidEntry(e)
             /\ \/ "getItem" \in f
                \/ /\ storageKeyOf(k) \in DOMAIN storage
                   /\ ~canParse(storage[storageKeyOf(k)]))
                => last'.ret = NULL]_vars

\* a get whose storage read failed has just returned null
C10_Witness ==
    /\ last.op = "get" /\ last.log = "get error"
    /\ last.ret = NULL /\ ~last.threw

\* what C11 asks of set(k, v) whose AsyncStorage.setItem rejects, for the
\* payloads in D: the call returns normally, memory holds the new item and
\* storage is as it was, and the get(k) that follows returns v
DegradesToMemory(D) ==
    \A k \in workload.keys, d \in D, t \in workload.ttls :
        Set(k, d, t, {"setItem"}) =>
            /\ ~last'.threw
            /\ k \in DOMAIN memoryCache'
            /\ memoryCache'[k] = newCacheItem(d, ttlMinutesOf(k, t))
            /\ storage' = storage
            /\ (get(k, {}).ret)' = d

C12_AsStated ==
    \A k \in DOMAIN memoryCache : storageKeyOf(k) \in DOMAIN storage

\* C13 as stated: when get(k) finds an entry of k that is not valid (expired,
\* of another version, or with null data) in memory, in storage or in both,
\* and returns null, afterwards neither tier holds an entry for k.
C13_AsStated ==
    [][\A k \in workload.keys :
        (/\ Get(k, {})
         /\ \E e \in Entries(k) : ~ValidEntry(e)
         /\ storageKeyOf(k) \in DOMAIN storage => canParse(storage[storageKeyOf(k)])
         /\ last'.ret = NULL)
            => /\ k \notin DOMAIN memoryCache'
               /\ storageKeyOf(k) \notin DOMAIN storage']_vars

\* C14 as stated: get(k) on a stored string that cannot be parsed returns
\* null without raising, and the string is removed from storage.
C14_AsStated ==
    [][\A k \in workload.keys :
        (/\ Get(k, {})
         /\ \A e \in MemEntries(k) : ~ValidEntry(e)
         /\ storageKeyOf(k) \in DOMAIN storage
         /\ ~canParse(storage[storageKeyOf(k)]))
            => /\ last'.ret = NULL
               /\ ~last'.threw
               /\ storageKeyOf(k) \notin DOMAIN storage']_vars

\* C15: after a clear() in which no storage call rejects, memory is empty,
\* storage holds no key under the cache prefix and no metadata record, what
\* is stored outside the prefix is as it was, and get(k) returns null for
\* every key; memory is empty after every clear(), whichever storage call of
\* the wipe rejects and however far the wipe got.
C15_ClearWipes ==
    [][/\ \A f \in Faults.clear : \A done \in PartlyDone(f) :
            Clear(f, done) => memoryCache' = EmptyMap /\ ~last'.threw
       /\ Clear({}, {}) =>
            /\ cacheKeysOf(storage') = {}
            /\ METADATA_KEY \notin DOMAIN storage'
            /\ storage' = DropAll(storage, cacheKeysOf(storage))
            /\ \A k \in AllKeys : (get(k, {}).ret)' = NULL]_vars

\* clear() has just wiped a cache that held something
C15_Witness ==
    /\ last.op = "clear" /\ last.log = "cleared" /\ last.changed
    /\ memoryCache = EmptyMap
    /\ cacheKeysOf(storage) = {}
    /\ \A k \in workload.keys : get(k, {}).ret = NULL

\* C16 as stated: an entry written by set with a customTTL passed, 0
\* included, expires customTTL minutes after its timestamp, whatever TTL the
\* key's classification gives.
C16_AsStated ==
    (/\ last.op = "set"
     /\ last.ttl # NoTTL
     /\ last.key \in DOMAIN memoryCache)
        => memoryCache[last.key][F_expiresAt] - memoryCache[last.key][F_timestamp]
               = last.ttl * 60 * 1000

\* C17 as stated: the stored watchlists have pairwise distinct ids, after
\* any createWatchlist, deleteWatchlist and updateWatchlistName calls, two
\* createWatchlist calls within one clock millisecond included.
C17_AsStated ==
    \A i, j \in 1..Len(StoredWatchlists) :
        i # j => StoredWatchlists[i].id # StoredWatchlists[j].id

\* a request that ends in one of the ways C18 lists: it fails, the payload
\* carries an API error field, or a required field is missing
Failing(response, required) ==
    \/ RequestFailed(response)
    \/ ApiError(response)
    \/ ~(required \subseteq response.fields)

\* the fetcher found no live entry under its key, so it made the request
RequestMade(key) == getCachedData(key).data = NoData

\* the run r of a fetcher whose request was Failing resolves with the
\* fallback and leaves the response cache as `after`
FallsBack(r, key, response, required, fallback, after) ==
    (RequestMade(key) /\ Failing(response, required))
        => /\ ~r.threw
           /\ r.ret = fallback
           /\ r.cache = after

\* FallsBack for the four fetchers called in the present state with each
\* response, with after(key) the cache the call is to leave
FallbackOfAll(after(_)) ==
    /\ \A response \in Responses(RequiredOf.market) :
          FallsBack(getTopGainersLosers(response), topGainersLosersKey,
                    response, RequiredOf.market,
                    getFallbackMarketData, after(topGainersLosersKey))
    /\ \A symbol \in Symbols, response \in Responses(RequiredOf.overview) :
          FallsBack(getCompanyOverview(symbol, response), overviewKey(symbol),
                    response, RequiredOf.overview,
                    getFallbackCompanyData(symbol), after(overviewKey(symbol)))
    /\ \A symbol \in Symbols, response \in Responses(RequiredOf.quote) :
          FallsBack(getGlobalQuote(symbol, response), quoteKey(symbol),
                    response, RequiredOf.quote,
                    getFallbackQuoteData(symbol), after(quoteKey(symbol)))
    /\ \A symbol \in Symbols, interval \in Intervals :
          \A response \in Responses(RequiredOfSeries(interval)) :
              FallsBack(getTimeSeriesData(symbol, interval, response),
                        timeseriesKey(symbol, interval),
                        response, RequiredOfSeries(interval),
                        getFallbackTimeSeriesData(symbol, interval),
                        after(timeseriesKey(symbol, interval)))

CacheAsItWas(key) == cache

\* the cache without the entry of key
CacheWithout(key) == Drop(cache, key)

\* C18 as stated: when the request of one of the four fetchers fails, or the
\* payload carries 'Error Message', 'Note' or 'Information', or lacks the
\* required fields, the call resolves with the fallback data and the response
\* cache is as it was before the call.
C18_AsStated ==
    FallbackOfAll(CacheAsItWas)

\* C18: in those cases the call resolves with the fallback data and adds
\* nothing to the response cache: the cache is as it was before the call
\* less the expired entry under the call's own key, if there was one, and a
\* fetcher that has resolved with the fallback has left no entry under its key.
C18_Fallback ==
    /\ FallbackOfAll(CacheWithout)
    /\ (last.op \in {"getTopGainersLosers", "getCompanyOverview",
                     "getGlobalQuote", "getTimeSeriesData"}
        /\ last.ret.source = "fallback")
            => last.key \notin DOMAIN cache

\* a fetcher has just resolved with the fallback, after its cached response
\* had expired, while the response of another fetcher stays cached
C18_Witness ==
    /\ last.op = "getGlobalQuote"
    /\ last.ret = getFallbackQuoteData(<<"A">>)
    /\ last.changed
    /\ last.key \notin DOMAIN cache
    /\ cache # EmptyMap

\* the sets of key k that were called step by step, in call order
SetsOf(k) == SelectSeq(calls, LAMBDA c : c.op = "set" /\ c.key = k)

\* every set of k that was called has returned, and there were two at least
SetsCompleted(k) ==
    /\ Len(SetsOf(k)) >= 2
    /\ \A i \in 1..Len(SetsOf(k)) : SetsOf(k)[i].pc = "done"

LaterSet(k) == SetsOf(k)[Len(SetsOf(k))]

\* C19: when sets of one key overlap, no step of a set after its call
\* changes the memory tier; once they have all returned, and for as long as
\* the item of the set called last is valid, memory holds that item and
\* get(k) returns its payload, whichever entry the writes left in storage.
C19_MemoryIsFreshest ==
    [][/\ \A i \in DOMAIN calls :
            (SetItemResolved(i) \/ MetaGetItemResolved(i) \/ MetaSetItemResolved(i))
                => memoryCache' = memoryCache
       /\ \A k \in workload.keys :
            (SetsCompleted(k) /\ ValidEntry(LaterSet(k).item))'
                => /\ MemEntries(k)' = {LaterSet(k).item'}
                   /\ (get(k, {}).ret)' = LaterSet(k).data']_vars

\* two sets of a key have returned, storage holds the entry of the one
\* called first and get returns the payload of the one called last
C19_Witness ==
    /\ \E k \in workload.keys :
        /\ SetsCompleted(k)
        /\ SetsOf(k)[1].data # LaterSet(k).data
        /\ DurEntries(k) = {SetsOf(k)[1].item}
        /\ MemEntries(k) = {LaterSet(k).item}
        /\ get(k, {}).ret = LaterSet(k).data

\* storage holds an entry of key k: a parsable string with the fields of a
\* CacheItem under k's storage key
HoldsEntry(k) ==
    /\ storageKeyOf(k) \in DOMAIN storage
    /\ canParse(storage[storageKeyOf(k)])
    /\ {F_timestamp, F_expiresAt, F_version} \subseteq DOMAIN parse(storage[storageKeyOf(k)])

\* C20 as stated: a get(k) that is a memory hit, or a miss with no entry of
\* k in storage, changes neither tier nor the metadata record; every get(k)
\* leaves the entries of every other key as they were in both tiers.
C20_AsStated ==
    [][\A k \in workload.keys :
        Get(k, {}) =>
            /\ ((\E e \in MemEntries(k) : ValidEntry(e)) \/ ~HoldsEntry(k))
                  => /\ memoryCache' = memoryCache
                     /\ storage' = storage
            /\ \A k2 \in AllKeys \ {k} : SameEntries(k2)]_vars

\* C21 as stated: getStats() returns as storageEntries the number of cache
\* entries in storage, the metadata record not counted, and as memoryEntries
\* the number of keys in the memory tier.
C21_AsStated ==
    last.op = "getStats" =>
        /\ last.stats.storageEntries =
              Cardinality(cacheKeysOf(storage) \ {METADATA_KEY})
        /\ last.stats.memoryEntries = Cardinality(DOMAIN memoryCache)

\* the minutes between timestamp and expiresAt of the memory entry of key k
MinutesOf(k) ==
    (memoryCache[k][F_expiresAt] - memoryCache[k][F_timestamp]) \div 60000

\* C22 as stated: a key made by a CacheKeys generator contains the substring
\* of a row of the TTL table, and set gives it the TTL of its generator's
\* resource (quote 2, top_gainers_losers 5, intraday 5, overview 60, daily
\* 30), whatever the symbol is.
C22_AsStated ==
    (last.op = "set" /\ last.ttl = NoTTL /\ last.key \in DOMAIN memoryCache) =>
        LET k == last.key
            made(g) == k \in {CacheKeys[g][a] : a \in DOMAIN CacheKeys[g]}
        IN  /\ \E i \in 1..Len(TTLTable) : includes(k, TTLTable[i][1])
            /\ k = CacheKeys.topGainersLosers => MinutesOf(k) = 5
            /\ made("companyOverview") => MinutesOf(k) = 60
            /\ made("globalQuote") => MinutesOf(k) = 2
            /\ made("timeSeriesIntraday") => MinutesOf(k) = 5
            /\ made("timeSeriesDaily") => MinutesOf(k) = 30

\* the operations of the cache manager
CacheOps ==
    {"set", "get", "remove", "clear", "cleanExpired", "invalidatePattern",
     "getStats"}

\* the keys of the store that do not start with CACHE_PREFIX, with what they hold
OtherData(store) ==
    [k \in {x \in DOMAIN store : ~startsWith(x, CACHE_PREFIX)} |-> store[k]]

GetOverlappedSet(i, j) ==
    /\ i < j
    /\ calls[i].op = "get" /\ calls[i].pc = "done"
    /\ calls[i].log = "HIT (Storage)"
    /\ calls[j].op = "set" /\ calls[j].pc = "done"
    /\ calls[j].key = calls[i].key

\* C23 as stated: a get that awaited its durable read while set(k, v2) was
\* called does not put the older entry it read over the item of that set:
\* once both have returned, and while the item of the set is valid, the Map
\* holds that item and get(k) returns v2.
C23_AsStated ==
    \A i, j \in DOMAIN calls :
        (GetOverlappedSet(i, j) /\ ValidEntry(calls[j].item)) =>
            /\ MemEntries(calls[j].key) = {calls[j].item}
            /\ get(calls[j].key, {}).ret = calls[j].data

\* the get at index i has returned after removing the invalid entry it had
\* read from storage, and the set at index j, called after that get was, has
\* returned
EvictionOverlappedSet(i, j) ==
    /\ i < j
    /\ calls[i].op = "get" /\ calls[i].pc = "done"
    /\ calls[i].log = "EXPIRED"
    /\ calls[j].op = "set" /\ calls[j].pc = "done"
    /\ calls[j].key = calls[i].key

\* C24 as stated: a get that read an expired or version-mismatched entry and
\* awaited that read while set(k, v) was called does not delete what the set
\* wrote: once both have returned, and while the item of the set is valid,
\* get(k) returns v.
C24_AsStated ==
    \A i, j \in DOMAIN calls :
        (EvictionOverlappedSet(i, j) /\ ValidEntry(calls[j].item)) =>
            get(calls[j].key, {}).ret = calls[j].data

\* the remove at index i has returned and no set of its key was called after
\* it was
Removed(i) ==
    /\ calls[i].op = "remove" /\ calls[i].pc = "done"
    /\ \A j \in DOMAIN calls :
            (calls[j].op = "set" /\ calls[j].key = calls[i].key) => j < i
    /\ \A j \in DOMAIN calls :
            (calls[j].op = "set" /\ calls[j].key = calls[i].key) =>
                calls[j].pc = "done"

\* C25 as stated: once remove(k) has returned, get(k) returns null until set
\* is called for k again, also when a get of k was awaiting its durable read
\* while the remove ran.
C25_AsStated ==
    \A i \in DOMAIN calls :
        Removed(i) => get(calls[i].key, {}).ret = NULL

\* C26 as stated: once set(k, v1) and then set(k, v2) have returned, with v2
\* another payload than v1 and no later set of k, no get(k) returns v1, in
\* whichever order the two durable writes completed, whatever the two TTLs
\* are, and after the item of v2 has expired in the Map.
C26_AsStated ==
    \A k \in workload.keys :
        (/\ Len(calls) = 2
         /\ SetsCompleted(k)
         /\ SetsOf(k)[1].data # LaterSet(k).data) =>
            get(k, {}).ret # SetsOf(k)[1].data

\* no watchlist of the list holds a stock twice
NoDuplicateStocks(watchlists) ==
    \A i \in DOMAIN watchlists :
        \A a, b \in DOMAIN watchlists[i].stocks :
            a # b => watchlists[i].stocks[a] # watchlists[i].stocks[b]

\* C28: in every interleaving of the steps of createWatchlist,
\* addStockToWatchlists, removeStockFromWatchlist,
\* removeStockFromAllWatchlists, deleteWatchlist (and updateWatchlistName) no
\* stored watchlist holds a stock twice; an addStockToWatchlists that finds
\* the stock in every selected watchlist saves nothing and returns, and the
\* list any addStockToWatchlists makes leaves each watchlist that held the
\* stock as it was read, updatedAt included.
C28_NoDuplicateStocks ==
    [][/\ NoDuplicateStocks(StoredWatchlists)
       /\ NoDuplicateStocks(StoredWatchlists')
       /\ \A i \in DOMAIN calls :
            (calls[i].op = "addStockToWatchlists" /\ WatchlistsRead(i)) =>
                LET c == calls[i]
                    read == StoredWatchlists
                    holds(w) == c.symbol \in Range(w.stocks)
                IN  /\ (\A w \in Range(read) : w.id \in c.ids => holds(w)) =>
                            /\ calls'[i].pc = "done"
                            /\ storage' = storage
                    /\ calls'[i].pc = "setItem" =>
                            \A j \in DOMAIN read :
                                holds(read[j]) =>
                                    calls'[i].watchlists[j] = read[j]]_vars

\* an addStockToWatchlists that overlapped another operation has returned;
\* a watchlist it selected held the stock and is stored as it was before
C28_Witness ==
    \E i \in DOMAIN calls :
        /\ calls[i].op = "addStockToWatchlists"
        /\ calls[i].pc = "done"
        /\ calls[i].overlapped
        /\ now > TickMinutes * 60 * 1000
        /\ \E w \in Range(StoredWatchlists) :
            /\ w.id \in calls[i].ids
            /\ calls[i].symbol \in Range(w.stocks)
            /\ w.updatedAt = <<"ISO", "0">>

\* for each stock of an index object, the watchlists listed, by id and name
HoldersIn(index) ==
    [stock \in DOMAIN index |->
        {<<index[stock][i].watchlistId, index[stock][i].watchlistName>> :
            i \in DOMAIN index[stock]}]

\* the index object stored, an absent record read as an empty object
StoredIndex ==
    IF STOCK_WATCHLISTS_KEY \in DOMAIN storage
    THEN parse(storage[STOCK_WATCHLISTS_KEY])
    ELSE EmptyMap

\* C29 as stated: once operations of the watchlist service that ran one
\* after the other have returned, the record under 'froww_stock_watchlists'
\* lists for each stock exactly the stored watchlists holding it, each with
\* its current id and name.
C29_AsStated ==
    (/\ calls # <<>>
     /\ \A i \in DOMAIN calls : calls[i].pc = "done" /\ ~calls[i].overlapped) =>
        HoldersIn(StoredIndex) = HoldersIn(stockWatchlistsMap(StoredWatchlists))

\* C30 as stated: when two createWatchlist calls, or two
\* addStockToWatchlists calls, overlapped and both have returned, the stored
\* watchlists hold the watchlist each createWatchlist made, and each stored
\* watchlist an addStockToWatchlists selected holds its stock.
C30_AsStated ==
    (/\ Len(calls) = 2
     /\ \A i \in DOMAIN calls : calls[i].pc = "done" /\ calls[i].overlapped
     /\ \E op \in {"createWatchlist", "addStockToWatchlists"} :
            \A i \in DOMAIN calls : calls[i].op = op) =>
        \A i \in DOMAIN calls :
            /\ calls[i].made \subseteq Range(StoredWatchlists)
            /\ calls[i].op = "addStockToWatchlists" =>
                \A w \in Range(StoredWatchlists) :
                    w.id \in calls[i].ids =>
                        calls[i].symbol \in Range(w.stocks)

====
